---------------------------- MODULE Spec2Model ----------------------------
(***************************************************************************)
(* A model of codector's Engine (src/codector/engine.py): the analysis     *)
(* pass that routes new chunks to every source and records them in the     *)
(* cache, and the query fan-out (fetch) with the per-path merge            *)
(* (get_results).                                                          *)
(*                                                                         *)
(* The collaborators that live outside engine.py (Cache, Repository, File, *)
(* the result class and the two sources) are modelled at their interface:  *)
(* what the engine hands them and what it reads back.                      *)
(***************************************************************************)
EXTENDS Integers, Sequences, FiniteSets, TLC

(***************************************************************************)
(* Bounds of the model.                                                    *)
(***************************************************************************)
\* chunk ids are 1..MaxChunkId
MaxChunkId == 2
\* number of files of a small repository
MaxFiles == 2
\* results one source returns for one query
MaxResults == 2
\* get_results() calls between two fetches
MaxGets == 2
\* abandoned futures of one source that are unfinished at one time
MaxOrphans == 1
\* components of the path an engine is constructed with
MaxPathLen == 2
\* largest number of ranked files the window computation is applied to
MaxTotal == 1000

(***************************************************************************)
(* Program constants.                                                      *)
(***************************************************************************)
\* max(40, ...) in _create_vector_embeddings
MinFiles == 40
\* int(len * 0.2): one file in five
WindowDivisor == 5

Range(seq) == {seq[k] : k \in 1..Len(seq)}

Max(a, b) == IF a >= b THEN a ELSE b
Min(a, b) == IF a <= b THEN a ELSE b

(***************************************************************************)
(* The registered sources: self._fetchers.  The chain over its values     *)
(* walks the "async" list first, then the "sync" list (dict order).        *)
(***************************************************************************)
Fetchers == [async |-> <<"ripgrep">>, sync |-> <<"chroma">>]
Sources == Fetchers.async \o Fetchers.sync
SourceSet == {Sources[k] : k \in 1..Len(Sources)}
AsyncSet == {Fetchers.async[k] : k \in 1..Len(Fetchers.async)}
SyncSet == {Fetchers.sync[k] : k \in 1..Len(Fetchers.sync)}

ChunkIds == 1..MaxChunkId


(***************************************************************************)
(* The repositories the model starts from.  A file is the sequence of the  *)
(* chunk ids its get_chunks() yields; two chunks with equal content have   *)
(* the same id, so an id may occur more than once.  A small repository has *)
(* up to MaxFiles files; a large one has more than MinFiles files (the     *)
(* files in between hold no chunk), so that its last file lies outside the *)
(* analysis window.                                                        *)
(***************************************************************************)
FileShapes ==
  {<<>>} \cup {<<c>> : c \in ChunkIds} \cup {<<c, d>> : c \in ChunkIds, d \in ChunkIds}

\* the chunks of a list of files, file after file (lines 112-114); the list is
\* split in halves to keep the recursion shallow
RECURSIVE Flatten(_)
Flatten(files) ==
  IF files = <<>> THEN <<>>
  ELSE IF Len(files) = 1 THEN files[1]
  ELSE LET h == Len(files) \div 2
       IN Flatten(SubSeq(files, 1, h)) \o Flatten(SubSeq(files, h + 1, Len(files)))

\* chunk ids are interchangeable: keep the repositories that number their
\* chunks in order of first appearance
Canonical(files) ==
  LET s == Flatten(files)
  IN \A k \in 1..Len(s) :
       s[k] = 1 \/ \E j \in 1..(k - 1) : s[j] = s[k] \/ s[j] = s[k] - 1

SmallRepos ==
  {r \in UNION {[1..n -> FileShapes] : n \in 1..MaxFiles} : Canonical(r)}

LargeRepos ==
  {r \in {<<f>> \o [k \in 1..(MinFiles - 1) |-> <<>>] \o <<g>> :
            f \in FileShapes \ {<<>>}, g \in FileShapes \ {<<>>}} : Canonical(r)}

Repos == SmallRepos \cup LargeRepos

(***************************************************************************)
(* _create_vector_embeddings, lines 110-114: the analysis window and the   *)
(* chunks enumerated from it.                                              *)
(***************************************************************************)
\* faulty variant of line 111: the fifth rounded up
minimum_files_to_analyze_ceil(total) ==
  Max(MinFiles, (total + WindowDivisor - 1) \div WindowDivisor)

\* int(len(top_files) * 0.2): the product with the double 0.2 is never below
\* len/5, so int() truncates to the integer quotient
minimum_files_to_analyze(total) == Max(MinFiles, total \div WindowDivisor)

\* top_files()[:minimum_files_to_analyze]: a slice stops at the end of the list
WindowFiles(files) ==
  SubSeq(files, 1, Min(Len(files), minimum_files_to_analyze(Len(files))))

ChunksOf(files) == Flatten(WindowFiles(files))

(***************************************************************************)
(* _add_to_collection, lines 105-107: cache_chunk on every source in       *)
(* chain order.  failAt = 0: every call returns; failAt = k: the k-th      *)
(* source raises, the exception leaves the loop and the sources after it   *)
(* are not called.                                                         *)
(***************************************************************************)
InvokedSources(failAt) ==
  {Sources[k] : k \in 1..(IF failAt = 0 THEN Len(Sources) ELSE failAt)}

ReturnedSources(failAt) ==
  {Sources[k] : k \in 1..(IF failAt = 0 THEN Len(Sources) ELSE failAt - 1)}

\* cache_chunk's side effect on a source's index (the source's own business:
\* modelled as adding the chunk id when the call returns)
add_to_collection(idx, c, failAt) ==
  [s \in SourceSet |-> IF s \in ReturnedSources(failAt) THEN idx[s] \cup {c} ELSE idx[s]]

\* line 117: the skip test
AlreadyAnalyzed(set, c) == c \in set

\* faulty variants of line 121: the add left out; an assignment in place of
\* the add
MarkAnalyzed_omitted(set, c) == set
MarkAnalyzed_assign(set, c) == {c}

\* line 121: chunks_already_analyzed.add(chunk.chunk_id)
MarkAnalyzed(set, c) == set \cup {c}

\* faulty variant of lines 120-121: the chunk marked before it is dispatched
AfterRaise_marked(set, c) == set \cup {c}

\* chunks_already_analyzed after an iteration whose line 120 raised: line 121
\* was not reached
AfterRaise(set, c) == set


(***************************************************************************)
(* Queries and results.  A result item is [path, payload]; a source's      *)
(* fetch(query) returns a list of at most MaxResults items.  The payload   *)
(* of a returned item is one element naming the query, the source and the  *)
(* item's place in the returned list, so that every returned item can be   *)
(* told from every other one.  The paths are those of the repository's     *)
(* files; a file is named by its rank.                                     *)
(***************************************************************************)
Queries == {"foo", "bar"}
PathsOf(files) == 1..Len(files)

Item(p, q, s, k) == [path |-> p, payload |-> << <<q, s, k>> >>]

Responses(paths, q, s) ==
  UNION {{[k \in 1..n |-> Item(ps[k], q, s, k)] : ps \in [1..n -> paths]} :
           n \in 0..MaxResults}

\* what a call of a source's fetch may come to: a list, or an exception
Raised == [kind |-> "raised", list |-> <<>>]
Returned(list) == [kind |-> "list", list |-> list]
Outcomes(paths, q, s) == {Returned(l) : l \in Responses(paths, q, s)} \cup {Raised}

RECURSIVE Concat(_)
Concat(lists) ==
  IF lists = <<>> THEN <<>> ELSE Head(lists) \o Concat(Tail(lists))

\* lines 141 and 145: self._results.extend(list)
ExtendResults(res, list) == res \o list

\* result_item.extend(other): the payload of other is appended to the item
\* (the item itself is changed; line 159 drops the return value)
Extend(item, other) == [item EXCEPT !.payload = @ \o other.payload]

(***************************************************************************)
(* get_results, lines 151-161.  merged_results maps a path to the item     *)
(* object first seen for it, which is an element of self._results: `order` *)
(* holds, in dict order, the places in the list of the objects the dict    *)
(* holds, and extending a dict entry changes the list element in place.    *)
(***************************************************************************)
Seen(res, order, p) == \E k \in 1..Len(order) : res[order[k]].path = p

EntryOf(res, order, p) ==
  order[CHOOSE k \in 1..Len(order) : res[order[k]].path = p]

\* faulty variant of line 159: the entry replaced by the later item
MergeInto_overwrite(res, f, j) == [res EXCEPT ![f] = res[j]]

\* faulty variant of line 159: the later item not merged into the entry
MergeInto_dropped(res, f, j) == res

\* line 159 on the dict entry at place f of the list, for the item at place j
MergeInto(res, f, j) == [res EXCEPT ![f] = Extend(res[f], res[j])]

RECURSIVE MergeLoop(_, _, _)
MergeLoop(res, j, order) ==
  IF j > Len(res) THEN [list |-> res, order |-> order]
  ELSE IF ~Seen(res, order, res[j].path)
       THEN MergeLoop(res, j + 1, Append(order, j))
       ELSE MergeLoop(MergeInto(res, EntryOf(res, order, res[j].path), j), j + 1, order)

\* line 161: list(merged_results.values())
get_results(res) ==
  LET m == MergeLoop(res, 1, <<>>)
  IN [k \in 1..Len(m.order) |-> m.list[m.order[k]]]

\* self._results after the call: the same objects, some of them extended
ResultsAfterGet(res) == MergeLoop(res, 1, <<>>).list

(***************************************************************************)
(* The cache folder, lines 79-99.  A path is "/" or "~/" followed by       *)
(* components; the user's home directory is /a.  (Relative paths and       *)
(* symbolic links, which resolve() settles against the working directory   *)
(* and the file system, are left out.)                                     *)
(***************************************************************************)
CACHE_FORMAT_VERSION == 15

\* the version of this build and of the build after a change of format
Versions == {CACHE_FORMAT_VERSION, CACHE_FORMAT_VERSION + 1}

PathComponents == {"a", ".."}
Home == <<"a">>

RawPaths ==
  {[tilde |-> t, comps |-> c] :
     t \in BOOLEAN, c \in UNION {[1..n -> PathComponents] : n \in 0..MaxPathLen}}

\* Path.expanduser(), line 93: a leading ~ becomes the home directory
expanduser(path) == IF path.tilde THEN Home \o path.comps ELSE path.comps

\* Path.resolve(), line 93: ".." leaves the directory before it, and the
\* root is its own parent
RECURSIVE resolve(_)
resolve(comps) ==
  IF comps = <<>> THEN <<>>
  ELSE LET front == resolve(SubSeq(comps, 1, Len(comps) - 1))
           last == comps[Len(comps)]
       IN IF last # ".." THEN Append(front, last)
          ELSE IF front = <<>> THEN <<>>
          ELSE SubSeq(front, 1, Len(front) - 1)

normalized_path(path) == resolve(expanduser(path))

\* str() of an integer inside the f-string of lines 94-97
DigitChars == <<"0", "1", "2", "3", "4", "5", "6", "7", "8", "9">>

RECURSIVE Decimal(_)
Decimal(n) ==
  IF n < 10 THEN <<DigitChars[n + 1]>>
  ELSE Decimal(n \div 10) \o <<DigitChars[(n % 10) + 1]>>

\* str() of the normalized path inside the f-string
PathText(comps) ==
  IF comps = <<>> THEN <<"/">>
  ELSE Concat([k \in 1..Len(comps) |-> <<"/", comps[k]>>])

\* hashlib.sha256(...).hexdigest(), line 99: the digest stands for the text
\* it was computed from (no two texts of the model share a digest)
sha256(text) == [sha256 |-> text]

\* faulty variant of lines 94-97: the version left out of the hashed text
get_project_hash_unversioned(path, version) ==
  sha256(<<"Normalized path: ">> \o PathText(normalized_path(path)))

\* _get_project_hash, lines 92-99
get_project_hash(path, version) ==
  sha256(<<"Cache version: ">> \o Decimal(version)
         \o <<"Normalized path: ">> \o PathText(normalized_path(path)))

\* _get_cache_root, lines 85-90; pytest: PYTEST_CURRENT_TEST is in os.environ
get_cache_root(pytest) == IF pytest THEN "codector-pytest" ELSE "codector"

\* _get_cache_folder, lines 79-83
get_cache_folder(path, version, pytest) ==
  [root |-> get_cache_root(pytest), hash |-> get_project_hash(path, version)]

\* the two engines whose cache files are compared
EngineIds == {1, 2}

\* Cache.load(), line 68: the marks in the file of that folder, none when
\* there is no file
Load(files, folder) == {f[2] : f \in {g \in files : g[1] = folder}}

\* Cache.persist(): the file of that folder rewritten with the marks held
Persist(files, folder, marks) ==
  {g \in files : g[1] # folder} \cup {<<folder, w>> : w \in marks}

VARIABLES
  \* ---- two engines and the cache files under the cache roots
  engines,            \* per engine: what it was constructed with, its cache
                      \* folder, and the marks in its chunks_already_analyzed
                      \* (a mark is the id of the engine that analyzed)
  cache_files,        \* pairs <<folder, mark>>: the marks in the cache file of
                      \* each folder
  \* ---- repository collaborator
  top_files,          \* repository.top_files(): ranked files, each the sequence
                      \* of the chunk ids file.get_chunks() yields
  \* ---- the engine process: analysis
  pc,                 \* "idle" | "chunks" | "persist_cache" | "persist_sources"
  chunks_to_process,  \* the local list of _create_vector_embeddings
  pos,                \* how many of chunks_to_process the loop has passed
  analyzed,           \* self._cache.data["chunks_already_analyzed"]
  disk,               \* chunks_already_analyzed as stored in the cache file
  index,              \* per source: the chunk ids in its in-memory index
  stored,             \* per source: the chunk ids in its persisted index
  \* ---- observers of the analysis runs (never read by the engine)
  runCalls,           \* cache_chunk invocations made by the current/latest run
  runDispatched,      \* chunk ids the current/latest run dispatched
  everCompleted,      \* some analyze_codebase() has returned normally
  afterCompleted,     \* the current/latest run started after such a return
  okBy,               \* per source: chunk ids whose cache_chunk returned
  everMarked,         \* chunk ids that were ever added to chunks_already_analyzed
  redispatched,       \* chunk ids dispatched although they were in everMarked
  failedChunks,       \* chunk ids whose latest dispatch raised
  failure,            \* the dispatch that raised in the current/latest run, or None
  persistLog,         \* the persist() calls of the current/latest run in
                      \* order, each with the chunks then left to the loop,
                      \* and the return of the run
  receivedBy,         \* per source: chunk ids its cache_chunk was ever called with
  reindexed,          \* pairs <<source, chunk id>>: cache_chunk called again
                      \* with a chunk id the source had received
  \* ---- the engine process: querying
  query_string,       \* self.query_string
  results,            \* self._results
  fpc,                \* "idle" | "await": fetch() suspended at line 143
  tasks,              \* async_tasks: per async source, the state of its future
  orphans,            \* per async source: the unfinished futures of earlier
                      \* fetches (each on its own executor), pending and running
  merged,             \* what the latest get_results() returned
  \* ---- observers of the queries
  fetch_status,       \* "none" | "running" | "ok" | "raised": the latest fetch()
  fetch_query,        \* the query string the latest fetch() dispatched
  returned,           \* per source: what its fetch came to in the latest fetch()
  finished,           \* the async sources of the latest fetch() in the order
                      \* in which their futures came to a result
  heldBefore,         \* self._results held items when the latest fetch() began
  gets,               \* get_results() calls since the latest fetch()
  before              \* self._results as the latest get_results() found it

analysisVars == <<pc, chunks_to_process, pos, analyzed, disk, index, stored>>
observerVars == <<runCalls, runDispatched, everCompleted, afterCompleted, okBy,
                  everMarked, redispatched, failedChunks, failure, persistLog,
                  receivedBy, reindexed>>
queryVars == <<query_string, results, fpc, tasks, orphans, merged>>
queryObservers == <<fetch_status, fetch_query, returned, finished, heldBefore, gets,
                    before>>
identityVars == <<engines, cache_files>>
vars == <<top_files, identityVars, analysisVars, observerVars, queryVars, queryObservers>>

NotBuilt ==
  [built |-> FALSE, path |-> [tilde |-> FALSE, comps |-> <<>>],
   version |-> CACHE_FORMAT_VERSION, pytest |-> FALSE,
   folder |-> get_cache_folder([tilde |-> FALSE, comps |-> <<>>],
                               CACHE_FORMAT_VERSION, FALSE),
   chunks |-> {}]

InitIdentityVars ==
  /\ engines = [e \in EngineIds |-> NotBuilt]
  /\ cache_files = {}

None == [chunk |-> 0, source |-> "none", invoked |-> {}, unprocessed |-> 0]

EmptyIndex == [s \in SourceSet |-> {}]

NoTask == [state |-> "none", query |-> "", result |-> <<>>]
NoTasks == [s \in AsyncSet |-> NoTask]
NoOrphans == [s \in AsyncSet |-> [pending |-> 0, running |-> 0]]
NotCalled == [s \in SourceSet |-> [kind |-> "none", list |-> <<>>]]

\* __init__, lines 53-56
InitQueryVars ==
  /\ query_string = ""
  /\ results = <<>>
  /\ fpc = "idle"
  /\ tasks = NoTasks
  /\ orphans = NoOrphans
  /\ merged = <<>>
  /\ fetch_status = "none"
  /\ fetch_query = ""
  /\ returned = NotCalled
  /\ finished = <<>>
  /\ heldBefore = FALSE
  /\ gets = 0
  /\ before = <<>>

\* __init__, lines 57-77, on a project that has no cache file yet
InitAnalysisVars ==
  /\ pc = "idle"
  /\ chunks_to_process = <<>>
  /\ pos = 0
  /\ analyzed = {}
  /\ disk = {}
  /\ index = EmptyIndex
  /\ stored = EmptyIndex
  /\ runCalls = 0
  /\ runDispatched = {}
  /\ everCompleted = FALSE
  /\ afterCompleted = FALSE
  /\ okBy = EmptyIndex
  /\ everMarked = {}
  /\ redispatched = {}
  /\ failedChunks = {}
  /\ failure = None
  /\ persistLog = <<>>
  /\ receivedBy = EmptyIndex
  /\ reindexed = {}

InitAnalysis ==
  /\ top_files \in Repos
  /\ InitIdentityVars
  /\ InitAnalysisVars
  /\ InitQueryVars

(***************************************************************************)
(* One coordinating thread drives the engine: analyze_codebase is          *)
(* synchronous, so no other call of the engine starts while a run is under *)
(* way (pc # "idle"), and the calls below start one at a time, none while  *)
(* a fetch() is suspended at line 143 (fpc = "await").  The executor's     *)
(* worker thread runs beside it.                                           *)
(*                                                                         *)
(* analyze_codebase, lines 101-103, up to the start of the chunk loop:     *)
(* repository.analyze_files() refreshes the repository's own fields of the *)
(* cache record (the repository is unchanged here, so nothing moves), then *)
(* lines 110-114 enumerate the chunks of the window.                       *)
(***************************************************************************)
AnalyzeStart ==
  /\ pc = "idle"
  /\ fpc = "idle"
  /\ pc' = "chunks"
  /\ chunks_to_process' = ChunksOf(top_files)
  /\ pos' = 0
  /\ runCalls' = 0
  /\ runDispatched' = {}
  /\ afterCompleted' = everCompleted
  /\ failure' = None
  /\ persistLog' = <<>>
  /\ UNCHANGED <<identityVars, queryVars, queryObservers>>
  /\ UNCHANGED <<top_files, analyzed, disk, index, stored, everCompleted, okBy,
                 everMarked, redispatched, failedChunks, receivedBy, reindexed>>

(***************************************************************************)
(* One iteration of the loop of lines 116-121 on a chunk that is already   *)
(* analyzed: continue.                                                     *)
(***************************************************************************)
SkipChunk ==
  /\ pc = "chunks"
  /\ pos < Len(chunks_to_process)
  /\ AlreadyAnalyzed(analyzed, chunks_to_process[pos + 1])
  /\ pos' = pos + 1
  /\ UNCHANGED <<identityVars, queryVars, queryObservers>>
  /\ UNCHANGED <<top_files, pc, chunks_to_process, analyzed, disk, index, stored,
                 observerVars>>

(***************************************************************************)
(* One iteration on a new chunk, every cache_chunk returning: the chunk is *)
(* handed to every source (line 120) and then marked (line 121).           *)
(***************************************************************************)
\* what the sources have received once chunk c went through the loop of
\* lines 106-107, and the calls among them that repeat an earlier one
Received(rcv, c, failAt) ==
  [s \in SourceSet |-> IF s \in InvokedSources(failAt) THEN rcv[s] \cup {c} ELSE rcv[s]]

Repeated(rcv, c, failAt) == {<<s, c>> : s \in {t \in InvokedSources(failAt) : c \in rcv[t]}}

DispatchChunk ==
  /\ pc = "chunks"
  /\ pos < Len(chunks_to_process)
  /\ LET c == chunks_to_process[pos + 1]
     IN /\ ~AlreadyAnalyzed(analyzed, c)
        /\ index' = add_to_collection(index, c, 0)
        /\ analyzed' = MarkAnalyzed(analyzed, c)
        /\ pos' = pos + 1
        /\ runCalls' = runCalls + Cardinality(InvokedSources(0))
        /\ runDispatched' = runDispatched \cup {c}
        /\ okBy' = [s \in SourceSet |-> okBy[s] \cup {c}]
        /\ everMarked' = everMarked \cup (analyzed' \ analyzed)
        /\ redispatched' = redispatched \cup ({c} \cap everMarked)
        /\ failedChunks' = failedChunks \ {c}
        /\ receivedBy' = Received(receivedBy, c, 0)
        /\ reindexed' = reindexed \cup Repeated(receivedBy, c, 0)
  /\ UNCHANGED <<identityVars, queryVars, queryObservers>>
  /\ UNCHANGED <<top_files, pc, chunks_to_process, disk, stored, everCompleted,
                 afterCompleted, failure, persistLog>>

(***************************************************************************)
(* One iteration on a new chunk in which the cache_chunk of the k-th       *)
(* source raises: nothing catches the exception in _add_to_collection, in  *)
(* _create_vector_embeddings or in analyze_codebase, so the run ends there *)
(* with the exception; line 121 and lines 123-126 are not reached.         *)
(***************************************************************************)
DispatchFails ==
  /\ pc = "chunks"
  /\ pos < Len(chunks_to_process)
  /\ \E k \in 1..Len(Sources) :
       LET c == chunks_to_process[pos + 1]
       IN /\ ~AlreadyAnalyzed(analyzed, c)
          /\ index' = add_to_collection(index, c, k)
          /\ analyzed' = AfterRaise(analyzed, c)
          /\ runCalls' = runCalls + Cardinality(InvokedSources(k))
          /\ runDispatched' = runDispatched \cup {c}
          /\ okBy' = [s \in SourceSet |->
                        IF s \in ReturnedSources(k) THEN okBy[s] \cup {c} ELSE okBy[s]]
          /\ redispatched' = redispatched \cup ({c} \cap everMarked)
          /\ failedChunks' = failedChunks \cup {c}
          /\ failure' = [chunk |-> c, source |-> Sources[k],
                         invoked |-> InvokedSources(k),
                         unprocessed |-> Len(chunks_to_process) - (pos + 1)]
          /\ receivedBy' = Received(receivedBy, c, k)
          /\ reindexed' = reindexed \cup Repeated(receivedBy, c, k)
  /\ pc' = "idle"
  /\ chunks_to_process' = <<>>
  /\ pos' = 0
  /\ UNCHANGED <<identityVars, queryVars, queryObservers>>
  /\ UNCHANGED <<top_files, disk, stored, everCompleted, afterCompleted,
                 everMarked, persistLog>>

\* faulty variant of line 116: the loop left while chunks remain
LoopDone_early == pc = "chunks"

\* line 116: the loop is exhausted
LoopDone ==
  /\ pc = "chunks"
  /\ pos = Len(chunks_to_process)

(***************************************************************************)
(* Line 123: self._cache.persist() writes the in-memory record to the      *)
(* cache file.                                                             *)
(***************************************************************************)
Unprocessed == Len(chunks_to_process) - pos

PersistEvent(who) == [who |-> who, unprocessed |-> Unprocessed]

PersistCache ==
  /\ LoopDone
  /\ disk' = analyzed
  /\ pc' = "persist_sources"
  /\ persistLog' = Append(persistLog, PersistEvent("cache"))
  /\ UNCHANGED <<identityVars, queryVars, queryObservers>>
  /\ UNCHANGED <<top_files, chunks_to_process, pos, analyzed, index, stored,
                 runCalls, runDispatched, everCompleted, afterCompleted, okBy,
                 everMarked, redispatched, failedChunks, failure, receivedBy,
                 reindexed>>

(***************************************************************************)
(* Lines 125-126: persist() on every source in chain order; each flushes   *)
(* its own index.  Then analyze_codebase returns.                          *)
(***************************************************************************)
\* the persist() calls made when the k-th raises (all of them when k = 0)
PersistEvents(failAt) ==
  [j \in 1..(IF failAt = 0 THEN Len(Sources) ELSE failAt) |-> PersistEvent(Sources[j])]

\* the persisted indexes once the loop of lines 125-126 has ended
Flushed(sto, idx, failAt) ==
  [s \in SourceSet |-> IF s \in ReturnedSources(failAt) THEN idx[s] ELSE sto[s]]

PersistSources ==
  /\ pc = "persist_sources"
  /\ stored' = Flushed(stored, index, 0)
  /\ pc' = "idle"
  /\ chunks_to_process' = <<>>
  /\ pos' = 0
  /\ everCompleted' = TRUE
  /\ persistLog' = persistLog \o PersistEvents(0) \o <<PersistEvent("return")>>
  /\ UNCHANGED <<identityVars, queryVars, queryObservers>>
  /\ UNCHANGED <<top_files, analyzed, disk, index, runCalls, runDispatched,
                 afterCompleted, okBy, everMarked, redispatched, failedChunks,
                 failure, receivedBy, reindexed>>

(***************************************************************************)
(* Lines 125-126 when the persist() of the k-th source raises: nothing     *)
(* catches the exception, the sources after it are not asked to persist,   *)
(* and the run ends with the exception, the cache file already written.    *)
(***************************************************************************)
PersistFails ==
  /\ pc = "persist_sources"
  /\ \E k \in 1..Len(Sources) :
       /\ stored' = Flushed(stored, index, k)
       /\ persistLog' = persistLog \o PersistEvents(k)
  /\ pc' = "idle"
  /\ chunks_to_process' = <<>>
  /\ pos' = 0
  /\ UNCHANGED <<identityVars, queryVars, queryObservers>>
  /\ UNCHANGED <<top_files, analyzed, disk, index, runCalls, runDispatched,
                 everCompleted, afterCompleted, okBy, everMarked, redispatched,
                 failedChunks, failure, receivedBy, reindexed>>

(***************************************************************************)
(* The run is interrupted (the interrupt surfaces as an exception in the   *)
(* coordinating thread): analyze_codebase is left where it stands, the     *)
(* engine object and its in-memory record stay.                            *)
(***************************************************************************)
Interrupt ==
  /\ pc # "idle"
  /\ pc' = "idle"
  /\ chunks_to_process' = <<>>
  /\ pos' = 0
  /\ UNCHANGED <<identityVars, queryVars, queryObservers>>
  /\ UNCHANGED <<top_files, analyzed, disk, index, stored, observerVars>>

(***************************************************************************)
(* The process ends at any point and a fresh engine is constructed on the  *)
(* same path (__init__, lines 49-77): the cache record is loaded from the  *)
(* cache file (line 68) and the sources are initialized from their own     *)
(* storage (lines 70-77).                                                  *)
(***************************************************************************)
Restart ==
  /\ pc' = "idle"
  /\ chunks_to_process' = <<>>
  /\ pos' = 0
  /\ analyzed' = disk
  /\ index' = stored
  /\ query_string' = ""
  /\ results' = <<>>
  /\ fpc' = "idle"
  /\ tasks' = NoTasks
  /\ orphans' = NoOrphans
  /\ merged' = <<>>
  /\ fetch_status' = "none"
  /\ fetch_query' = ""
  /\ returned' = NotCalled
  /\ finished' = <<>>
  /\ heldBefore' = FALSE
  /\ gets' = 0
  /\ before' = <<>>
  /\ UNCHANGED <<top_files, identityVars, disk, stored, observerVars>>

NextAnalysis ==
  \/ AnalyzeStart
  \/ SkipChunk
  \/ DispatchChunk
  \/ DispatchFails
  \/ PersistCache
  \/ PersistSources
  \/ PersistFails
  \/ Interrupt
  \/ Restart

SpecAnalysis == InitAnalysis /\ [][NextAnalysis]_vars

(***************************************************************************)
(* query, lines 128-129.                                                   *)
(***************************************************************************)
Query ==
  /\ pc = "idle"
  /\ fpc = "idle"
  /\ \E q \in Queries : query_string' = q
  /\ UNCHANGED <<results, fpc, tasks, orphans, merged, queryObservers>>
  /\ UNCHANGED <<top_files, identityVars, analysisVars, observerVars>>

(***************************************************************************)
(* fetch, lines 132-141: the result list is emptied, one future per async  *)
(* source is submitted to a fresh single-worker executor (each bound to    *)
(* the query string of this moment), and the sync sources are called       *)
(* inline in list order, each returned list extending self._results.  A    *)
(* sync source that raises ends fetch() with its exception: nothing in     *)
(* fetch catches it, and the futures already submitted are abandoned: the  *)
(* worker of this fetch()'s executor still runs them (`orphans`).          *)
(***************************************************************************)
SyncOutcomes(paths, q) ==
  {o \in [1..Len(Fetchers.sync) ->
            UNION {Outcomes(paths, q, Fetchers.sync[k]) : k \in 1..Len(Fetchers.sync)}] :
     \A k \in 1..Len(Fetchers.sync) : o[k] \in Outcomes(paths, q, Fetchers.sync[k])}

\* how many sync sources returned before the first one that raised
SyncReturned(o) ==
  IF \E k \in 1..Len(o) : o[k] = Raised
  THEN (CHOOSE k \in 1..Len(o) : o[k] = Raised /\ \A j \in 1..(k - 1) : o[j] # Raised) - 1
  ELSE Len(o)

\* faulty variant of line 132: the list of the earlier fetch() kept
SyncResults_kept(lists) == ExtendResults(results, Concat(lists))

\* line 132 and the loop of lines 140-141 over the lists that were returned
SyncResults(lists) == ExtendResults(<<>>, Concat(lists))

SubmitTasks(q) == [s \in AsyncSet |-> [state |-> "pending", query |-> q, result |-> <<>>]]

\* a future that was submitted and has not come to a result
Unfinished(task) == task.state \in {"pending", "running"}

\* line 133 builds a new executor for every fetch(): the futures a fetch()
\* leaves unfinished when it raises stay with its executor and worker thread
Abandon(orph, tsk) ==
  [s \in AsyncSet |->
     [pending |-> orph[s].pending + (IF tsk[s].state = "pending" THEN 1 ELSE 0),
      running |-> orph[s].running + (IF tsk[s].state = "running" THEN 1 ELSE 0)]]

\* the bound on the abandoned futures that are followed
HasRoom(orph, tsk) ==
  \A s \in AsyncSet :
    Unfinished(tsk[s]) => orph[s].pending + orph[s].running < MaxOrphans

FetchBegins ==
  /\ pc = "idle"
  /\ fpc = "idle"
  /\ \E o \in SyncOutcomes(PathsOf(top_files), query_string) :
       LET n == SyncReturned(o)
           submitted == SubmitTasks(query_string)
       IN /\ n < Len(o) => HasRoom(orphans, submitted)
          /\ tasks' = IF n = Len(o) THEN submitted ELSE NoTasks
          /\ orphans' = IF n = Len(o) THEN orphans ELSE Abandon(orphans, submitted)
          /\ results' = SyncResults([k \in 1..n |-> o[k].list])
          /\ fpc' = IF n = Len(o) THEN "await" ELSE "idle"
          /\ fetch_status' = IF n = Len(o) THEN "running" ELSE "raised"
          /\ returned' = [s \in SourceSet |->
                            IF \E k \in 1..Min(Len(o), n + 1) : Fetchers.sync[k] = s
                            THEN o[CHOOSE k \in 1..Len(o) : Fetchers.sync[k] = s]
                            ELSE NotCalled[s]]
  /\ fetch_query' = query_string
  /\ finished' = <<>>
  /\ heldBefore' = (results # <<>>)
  /\ merged' = <<>>
  /\ gets' = 0
  /\ before' = <<>>
  /\ UNCHANGED <<query_string>>

\* faulty variant of fetch(): the window is analyzed anew before the sources
\* are asked (every chunk handed to every source and marked, all persisted)
FetchStart_reanalyzing ==
  /\ FetchBegins
  /\ analyzed' = analyzed \cup Range(ChunksOf(top_files))
  /\ disk' = analyzed'
  /\ index' = [s \in SourceSet |-> index[s] \cup Range(ChunksOf(top_files))]
  /\ stored' = index'
  /\ receivedBy' = [s \in SourceSet |-> receivedBy[s] \cup Range(ChunksOf(top_files))]
  /\ persistLog' = <<PersistEvent("cache")>> \o PersistEvents(0)
  /\ UNCHANGED <<top_files, identityVars, pc, chunks_to_process, pos, runCalls,
                 runDispatched, everCompleted, afterCompleted, okBy, everMarked,
                 redispatched, failedChunks, failure, reindexed>>

\* fetch() touches nothing of the analysis: lines 131-145 name neither the
\* cache nor cache_chunk nor persist
FetchStart ==
  /\ FetchBegins
  /\ UNCHANGED <<top_files, identityVars, analysisVars, observerVars>>

(***************************************************************************)
(* The executor's single worker thread (line 133, max_workers=1) takes the *)
(* futures in the order they were submitted and runs one at a time.        *)
(***************************************************************************)
NextTask ==
  CHOOSE k \in 1..Len(Fetchers.async) :
    /\ tasks[Fetchers.async[k]].state = "pending"
    /\ \A j \in 1..(k - 1) : tasks[Fetchers.async[j]].state \in {"done", "raised"}

WorkerStart ==
  /\ \E k \in 1..Len(Fetchers.async) :
       /\ tasks[Fetchers.async[k]].state = "pending"
       /\ \A j \in 1..(k - 1) : tasks[Fetchers.async[j]].state \in {"done", "raised"}
  /\ tasks' = [tasks EXCEPT ![Fetchers.async[NextTask]].state = "running"]
  /\ UNCHANGED <<query_string, results, fpc, orphans, merged, queryObservers>>
  /\ UNCHANGED <<top_files, identityVars, analysisVars, observerVars>>

\* the source's fetch(query) returns a list or raises (line 136)
WorkerFinish ==
  /\ \E s \in AsyncSet :
       /\ tasks[s].state = "running"
       /\ \E o \in Outcomes(PathsOf(top_files), tasks[s].query, s) :
            /\ tasks' = [tasks EXCEPT ![s] =
                           IF o = Raised
                           THEN [@ EXCEPT !.state = "raised"]
                           ELSE [@ EXCEPT !.state = "done", !.result = o.list]]
            /\ returned' = [returned EXCEPT ![s] = o]
       /\ finished' = Append(finished, s)
  /\ UNCHANGED <<query_string, results, fpc, orphans, merged, fetch_status,
                 fetch_query, heldBefore, gets, before>>
  /\ UNCHANGED <<top_files, identityVars, analysisVars, observerVars>>

(***************************************************************************)
(* The worker thread of an earlier fetch()'s executor starts, and ends, a  *)
(* call that fetch() left behind; nobody reads what the call comes to.     *)
(***************************************************************************)
OrphanStart ==
  /\ \E s \in AsyncSet :
       /\ orphans[s].pending > 0
       /\ orphans' = [orphans EXCEPT ![s].pending = @ - 1, ![s].running = @ + 1]
  /\ UNCHANGED <<query_string, results, fpc, tasks, merged, queryObservers>>
  /\ UNCHANGED <<top_files, identityVars, analysisVars, observerVars>>

OrphanFinish ==
  /\ \E s \in AsyncSet :
       /\ orphans[s].running > 0
       /\ orphans' = [orphans EXCEPT ![s].running = @ - 1]
  /\ UNCHANGED <<query_string, results, fpc, tasks, merged, queryObservers>>
  /\ UNCHANGED <<top_files, identityVars, analysisVars, observerVars>>

(***************************************************************************)
(* Lines 143-145: asyncio.gather over the futures.  When every future has  *)
(* a result, gather returns the lists in the order of async_tasks and each *)
(* extends self._results; fetch() returns.                                 *)
(***************************************************************************)
GatheredLists == [k \in 1..Len(Fetchers.async) |-> tasks[Fetchers.async[k]].result]

\* faulty variant of line 145: the list assigned in place of extended
Accumulate_assign(res, lists) == Concat(lists)

\* faulty variant of line 145: the lists put before what is there
Accumulate_prepend(res, lists) == Concat(lists) \o res

\* the loop of lines 144-145
Accumulate(res, lists) == ExtendResults(res, Concat(lists))

\* faulty variant of line 143: the futures not awaited
AllFuturesDone_unawaited == TRUE

\* line 143: gather returns when every future has returned its list
AllFuturesDone == \A s \in AsyncSet : tasks[s].state = "done"

GatherReturns ==
  /\ fpc = "await"
  /\ AllFuturesDone
  /\ results' = Accumulate(results, GatheredLists)
  /\ fpc' = "idle"
  /\ tasks' = NoTasks
  /\ fetch_status' = "ok"
  /\ UNCHANGED <<query_string, orphans, merged, fetch_query, returned, finished,
                 heldBefore, gets, before>>
  /\ UNCHANGED <<top_files, identityVars, analysisVars, observerVars>>

(***************************************************************************)
(* Line 143 when a future raised: gather (return_exceptions left False)    *)
(* raises that exception in fetch(), which does not catch it; lines        *)
(* 144-145 are not reached.                                                *)
(***************************************************************************)
GatherRaises ==
  /\ fpc = "await"
  /\ \E s \in AsyncSet : tasks[s].state = "raised"
  /\ HasRoom(orphans, tasks)
  /\ fpc' = "idle"
  /\ tasks' = NoTasks
  /\ orphans' = Abandon(orphans, tasks)
  /\ fetch_status' = "raised"
  /\ UNCHANGED <<query_string, results, merged, fetch_query, returned, finished,
                 heldBefore, gets, before>>
  /\ UNCHANGED <<top_files, identityVars, analysisVars, observerVars>>

(***************************************************************************)
(* get_results, lines 151-161, called between fetches.                     *)
(***************************************************************************)
GetResults ==
  /\ pc = "idle"
  /\ fpc = "idle"
  /\ gets < MaxGets
  /\ merged' = get_results(results)
  /\ results' = ResultsAfterGet(results)
  /\ before' = results
  /\ gets' = gets + 1
  /\ UNCHANGED <<query_string, fpc, tasks, orphans, fetch_status, fetch_query,
                 returned, finished, heldBefore>>
  /\ UNCHANGED <<top_files, identityVars, analysisVars, observerVars>>

NextQuery ==
  \/ Query
  \/ FetchStart
  \/ WorkerStart
  \/ WorkerFinish
  \/ OrphanStart
  \/ OrphanFinish
  \/ GatherReturns
  \/ GatherRaises
  \/ GetResults

\* the queries of an engine on a repository of two files that is not analyzed
\* yet
InitQuery ==
  /\ top_files = << <<1>>, <<2>> >>
  /\ InitIdentityVars
  /\ InitAnalysisVars
  /\ InitQueryVars

SpecQuery == InitQuery /\ [][NextQuery]_vars

(***************************************************************************)
(* The same with the scheduling that fetch() relies on: the worker thread  *)
(* of the executor takes up a submitted future and the source's fetch      *)
(* comes to an end (WorkerStart, WorkerFinish), and the event loop resumes *)
(* the coroutine suspended at line 143 once gather has its outcome.        *)
(***************************************************************************)
(***************************************************************************)
(* Queries on an engine constructed (lines 49-77) on a project that        *)
(* earlier runs of analyze_codebase left analyzed, or not: the cache file  *)
(* holds the chunk ids of the window, and so do the sources' persisted     *)
(* indexes, or all are empty.                                              *)
(***************************************************************************)
InitQueryOnCache ==
  /\ top_files = << <<1, 2>> >>
  /\ InitIdentityVars
  /\ InitQueryVars
  /\ pc = "idle"
  /\ chunks_to_process = <<>>
  /\ pos = 0
  /\ disk \in {{}, Range(ChunksOf(top_files))}
  /\ analyzed = disk
  /\ stored = [s \in SourceSet |-> disk]
  /\ index = stored
  /\ runCalls = 0
  /\ runDispatched = {}
  /\ everCompleted = FALSE
  /\ afterCompleted = FALSE
  /\ okBy = EmptyIndex
  /\ everMarked = {}
  /\ redispatched = {}
  /\ failedChunks = {}
  /\ failure = None
  /\ persistLog = <<>>
  /\ receivedBy = EmptyIndex
  /\ reindexed = {}

SpecQueryOnCache == InitQueryOnCache /\ [][NextQuery]_vars

SpecQueryFair ==
  /\ InitQuery
  /\ [][NextQuery]_vars
  /\ WF_vars(WorkerStart)
  /\ WF_vars(WorkerFinish)
  /\ WF_vars(GatherReturns)
  /\ WF_vars(GatherRaises)

(***************************************************************************)
(* Two engines, each constructed once with some path, by a build of some   *)
(* format version, with or without PYTEST_CURRENT_TEST in the environment, *)
(* and the cache files they load and persist.                              *)
(***************************************************************************)
\* __init__, lines 49-68: the folder is resolved and the cache file loaded
Construct(e) ==
  /\ ~engines[e].built
  /\ \E p \in RawPaths, v \in Versions, t \in BOOLEAN :
       LET folder == get_cache_folder(p, v, t)
       IN engines' = [engines EXCEPT ![e] =
                        [built |-> TRUE, path |-> p, version |-> v, pytest |-> t,
                         folder |-> folder, chunks |-> Load(cache_files, folder)]]
  /\ UNCHANGED <<cache_files, top_files, analysisVars, observerVars, queryVars,
                 queryObservers>>

\* analyze_codebase on engine e: chunks are marked (line 118) and the cache
\* is persisted to the engine's folder (line 123)
AnalyzeEngine(e) ==
  /\ engines[e].built
  /\ engines' = [engines EXCEPT ![e].chunks = @ \cup {e}]
  /\ cache_files' = Persist(cache_files, engines[e].folder, engines[e].chunks \cup {e})
  /\ UNCHANGED <<top_files, analysisVars, observerVars, queryVars, queryObservers>>

NextIdentity ==
  \/ \E e \in EngineIds : Construct(e)
  \/ \E e \in EngineIds : AnalyzeEngine(e)

InitIdentity ==
  /\ top_files = << <<1>> >>
  /\ InitIdentityVars
  /\ InitAnalysisVars
  /\ InitQueryVars

SpecIdentity == InitIdentity /\ [][NextIdentity]_vars

(***************************************************************************)
(* The whole engine, analysis and queries in any order, on the             *)
(* repositories of one file.  (The properties are stated on its two       *)
(* parts, SpecAnalysis and SpecQueryOnCache: a query step changes no       *)
(* variable of the analysis, and a run starts only between queries.)       *)
(***************************************************************************)
OneFileRepos == {r \in SmallRepos : Len(r) = 1}

Init ==
  /\ top_files \in OneFileRepos
  /\ InitIdentityVars
  /\ InitAnalysisVars
  /\ InitQueryVars

Next ==
  \/ NextAnalysis
  \/ NextQuery

Spec == Init /\ [][Next]_vars

(***************************************************************************)
(* The window computation alone: the start of an analysis run on a         *)
(* repository of `total` ranked files, total in 0..MaxTotal, in which the  *)
(* file of rank k holds the one chunk k.  The chunks enumerated are then   *)
(* the ranks of the files of the window.                                   *)
(***************************************************************************)
RankedRepo(total) == [k \in 1..total |-> <<k>>]

InitWindow ==
  /\ top_files \in {RankedRepo(total) : total \in 0..MaxTotal}
  /\ InitIdentityVars
  /\ InitAnalysisVars
  /\ InitQueryVars

NextWindow == AnalyzeStart

SpecWindow == InitWindow /\ [][NextWindow]_vars

(***************************************************************************)
(*                              The claims                                 *)
(***************************************************************************)
WindowChunkIds == Range(ChunksOf(top_files))

\* C1 (idempotence of analysis): a run of analyze_codebase() that starts
\* after a run on the same repository has returned makes no cache_chunk call
\* on any source, and from that return on every chunk id of the analysis
\* window is in chunks_already_analyzed, in memory and in the cache file.
C1_Idempotent ==
  /\ afterCompleted => runCalls = 0 /\ runDispatched = {}
  /\ everCompleted => WindowChunkIds \subseteq (analyzed \cap disk)

\* a second run has walked the whole window of a repository with two distinct
\* chunks without dispatching any
C1_Witness ==
  /\ afterCompleted
  /\ pc = "persist_sources"
  /\ Cardinality(WindowChunkIds) >= 2
  /\ runCalls = 0

\* C3 (resumability): a chunk that was dispatched and marked analyzed is not
\* dispatched again by a later run, in the same engine or in a fresh one that
\* loads the cache record from the cache file.
C3_Resumable == redispatched = {}

\* C4 (failure isolation during analysis): when cache_chunk raises in one
\* source for a chunk, every registered source has still been called for that
\* chunk, and the run has gone on to the chunks after it.
C4_FailureIsolated ==
  failure # None => failure.invoked = SourceSet /\ failure.unprocessed = 0

\* C5 (a failed chunk is never marked): a chunk id is in
\* chunks_already_analyzed, in memory or in the cache file, only if
\* cache_chunk returned for it from every registered source; a chunk whose
\* latest dispatch raised is not in the set, so the loop does not skip it,
\* and a run that gets through its loop leaves no failed chunk in the window.
C5_FailedNeverMarked ==
  /\ \A c \in analyzed \cup disk : \A s \in SourceSet : c \in okBy[s]
  /\ failedChunks \cap (analyzed \cup disk) = {}
  /\ \A k \in 1..Len(chunks_to_process) :
       chunks_to_process[k] \in failedChunks => ~AlreadyAnalyzed(analyzed, chunks_to_process[k])
  /\ pc = "persist_sources" => failedChunks \cap WindowChunkIds = {}

\* a run marked one chunk and then ended on a chunk that raised in the last
\* source, after the first source had taken it
C5_Witness ==
  /\ pc = "idle"
  /\ failure # None
  /\ failure.source = Sources[Len(Sources)]
  /\ failure.chunk \in okBy[Sources[1]]
  /\ failure.chunk \in failedChunks
  /\ analyzed # {}

(***************************************************************************)
(* What the merge is to yield for a list, stated on the list alone.        *)
(***************************************************************************)
FirstPlace(list, p) ==
  CHOOSE j \in 1..Len(list) :
    list[j].path = p /\ \A i \in 1..(j - 1) : list[i].path # p

\* the payloads of the items of path p, in list order, end to end
RECURSIVE PayloadsOf(_, _)
PayloadsOf(list, p) ==
  IF list = <<>> THEN <<>>
  ELSE (IF Head(list).path = p THEN Head(list).payload ELSE <<>>)
         \o PayloadsOf(Tail(list), p)

PathsIn(list) == {list[j].path : j \in 1..Len(list)}

\* C2 (merge correctness): get_results() returns exactly one entry per
\* distinct path of the working result list as the call found it, the entries
\* ordered by the first occurrence of their paths in the list, and the payload
\* of the entry for a path is the concatenation, in list order, of the
\* payloads of all the list's items of that path.
C2_MergeCorrect ==
  gets >= 1 =>
    /\ {merged[k].path : k \in 1..Len(merged)} = PathsIn(before)
    /\ Len(merged) = Cardinality(PathsIn(before))
    /\ \A k \in 1..Len(merged) : \A l \in 1..Len(merged) :
         k < l => FirstPlace(before, merged[k].path) < FirstPlace(before, merged[l].path)
    /\ \A k \in 1..Len(merged) :
         merged[k].payload = PayloadsOf(before, merged[k].path)

\* the list held path, other path, first path again, and two entries came back
C2_Witness ==
  /\ gets >= 1
  /\ Len(before) = 3
  /\ before[1].path = before[3].path
  /\ before[2].path # before[1].path
  /\ Len(merged) = 2
  /\ Len(merged[1].payload) = 2

SomeSourceRaised == \E s \in SourceSet : returned[s].kind = "raised"

\* the place of an item in a list, counted
Occurrences(list, item) == Cardinality({j \in 1..Len(list) : list[j] = item})

\* C6 (failure isolation during query): when a source's fetch raised during
\* fetch(), fetch() still returns without error and the lists returned by the
\* other sources are in the working result list.
C6_FetchSurvives ==
  (fpc = "idle" /\ gets = 0 /\ SomeSourceRaised) =>
    /\ fetch_status = "ok"
    /\ \A s \in SourceSet : \A k \in 1..Len(returned[s].list) :
         Occurrences(results, returned[s].list[k]) = 1

AllReturned == Concat([k \in 1..Len(Sources) |-> returned[Sources[k]].list])

NoSharedPath == Cardinality(PathsIn(AllReturned)) = Len(AllReturned)

\* C7 (fan-out completeness): after fetch() has returned, self._results holds
\* every item returned by every registered source for the query of that
\* fetch, each exactly once and nothing else; when no two of the items share
\* a path, get_results() returns as many entries as the sources returned
\* items, and so no fewer than there are sources with a non-empty list.
C7_FanOutComplete ==
  fetch_status = "ok" =>
    /\ \A s \in SourceSet : returned[s].kind = "list"
    /\ gets = 0 =>
         /\ Len(results) = Len(AllReturned)
         /\ \A k \in 1..Len(AllReturned) : Occurrences(results, AllReturned[k]) = 1
         /\ \A k \in 1..Len(AllReturned) : AllReturned[k].payload[1][1] = fetch_query
    /\ (gets >= 1 /\ NoSharedPath) =>
         /\ Len(merged) = Len(AllReturned)
         /\ Len(merged) >= Cardinality({s \in SourceSet : returned[s].list # <<>>})

\* both sources returned one item, of different paths, and get_results()
\* returned two entries
C7_Witness ==
  /\ fetch_status = "ok"
  /\ gets >= 1
  /\ \A s \in SourceSet : Len(returned[s].list) = 1
  /\ NoSharedPath
  /\ Len(merged) = 2

\* C8 (get_results is pure): a call of get_results() leaves self._results and
\* every item in it as the call found them.
C8_GetResultsPure == gets >= 1 => results = before

(***************************************************************************)
(* The window claims are read off the start of a run on a repository whose *)
(* file of rank k holds the one chunk k: the enumerated chunks are the     *)
(* ranks of the files of the window.                                       *)
(***************************************************************************)
RankedFiles == Len(top_files)

EnumeratedRanks == chunks_to_process

Prefix(n) == [k \in 1..n |-> k]

\* the least whole number that is at least a fifth of total
CeilFifth(total) == CHOOSE f \in 0..total : 5 * f >= total /\ 5 * (f - 1) < total

\* the greatest whole number that is at most a fifth of total
FloorFifth(total) == CHOOSE f \in 0..total : 5 * f <= total /\ 5 * (f + 1) > total

\* C9 (analysis window bound), as claimed: the files whose chunks one run
\* enumerates are the min(total, max(40, ceil(0.2 * total))) top-ranked ones.
C9_WindowCeil ==
  pc = "chunks" =>
    EnumeratedRanks = Prefix(Min(RankedFiles, Max(40, CeilFifth(RankedFiles))))

\* C9 (analysis window bound), amended: the files whose chunks one run
\* enumerates are the min(total, max(40, floor(0.2 * total))) top-ranked
\* ones; 10 files give 10, 1000 give 200, and 201..204 give 40.
C9_WindowFloor ==
  pc = "chunks" =>
    /\ EnumeratedRanks = Prefix(Min(RankedFiles, Max(40, FloorFifth(RankedFiles))))
    /\ RankedFiles = 10 => Len(EnumeratedRanks) = 10
    /\ RankedFiles = 1000 => Len(EnumeratedRanks) = 200
    /\ RankedFiles \in 201..204 => Len(EnumeratedRanks) = 40

\* a run on 204 ranked files enumerated the 40 top-ranked ones
C9_Witness ==
  /\ pc = "chunks"
  /\ RankedFiles = 204
  /\ EnumeratedRanks = Prefix(40)

\* C10 (growth only): no step of the engine removes an element from
\* chunks_already_analyzed in memory, and no step at all removes one from the
\* set in the cache file, however the analysis runs end.  (The steps of
\* query, fetch and get_results leave both sets as they are, see C17, so the
\* steps that count are those of analyze_codebase.)  The one step that is
\* not an operation of the engine, the start of a fresh engine process,
\* reloads the set from the cache file.
C10_GrowthOnly ==
  [][/\ (analyzed \subseteq analyzed' \/ Restart)
     /\ disk \subseteq disk']_vars

\* chunks were marked in a run that ended early, are persisted since a later
\* run returned, and a run after that is under way
C10_Witness ==
  /\ analyzed # {}
  /\ disk # {}
  /\ failedChunks = {}
  /\ redispatched = {}
  /\ reindexed # {}
  /\ afterCompleted
  /\ pc = "chunks"
  /\ pos >= 1

\* the calls of source s's fetch that are executing
Executing(s) == (IF tasks[s].state = "running" THEN 1 ELSE 0) + orphans[s].running

\* C11 (one dispatch per source at a time): no source has two calls of its
\* fetch executing at the same time.  (The sync sources are called inline on
\* the coordinating thread, one call at a time; the futures of the async
\* sources are what can overlap.)
C11_OneDispatchAtATime == \A s \in AsyncSet : Executing(s) <= 1

\* what an engine's cache folder is resolved from
SameProject(e, f) ==
  /\ normalized_path(engines[e].path) = normalized_path(engines[f].path)
  /\ engines[e].version = engines[f].version

SameRoot(e, f) == get_cache_root(engines[e].pytest) = get_cache_root(engines[f].pytest)

\* C12 as stated (cache location, path and version only): two engines of the
\* same normalized path and the same format version have the same cache folder.
C12_PathAndVersionOnly ==
  \A e \in EngineIds, f \in EngineIds :
    engines[e].built /\ engines[f].built /\ SameProject(e, f)
      => engines[e].folder = engines[f].folder

\* C12 (cache location, under one cache root): two engines that resolve the
\* same cache root have the same cache folder exactly when their normalized
\* paths and their format versions are the same; two engines of different
\* format versions never have the same folder, whatever the root; an engine
\* holds, and a cache file stores, only marks made by engines of its own
\* normalized path and format version.
C12_IdentityIsolation ==
  /\ \A e \in EngineIds, f \in EngineIds :
       engines[e].built /\ engines[f].built =>
         /\ SameRoot(e, f) => (engines[e].folder = engines[f].folder <=> SameProject(e, f))
         /\ engines[e].version # engines[f].version => engines[e].folder # engines[f].folder
         /\ \A w \in engines[e].chunks : SameProject(e, w)
  /\ \A g \in cache_files : g[1] = engines[g[2]].folder

\* two engines of one normalized path under two spellings and of two format
\* versions have both analyzed and persisted, the second constructed after
\* the first had persisted
C12_Witness ==
  /\ engines[1].built /\ engines[2].built
  /\ engines[1].path # engines[2].path
  /\ normalized_path(engines[1].path) = normalized_path(engines[2].path)
  /\ engines[1].version # engines[2].version
  /\ SameRoot(1, 2)
  /\ Load(cache_files, engines[1].folder) = {1}
  /\ Load(cache_files, engines[2].folder) = {2}

\* the lists the sync sources returned to the latest fetch(), in their order
SyncPart ==
  Concat([k \in 1..Len(Fetchers.sync) |-> returned[Fetchers.sync[k]].list])

\* the lists of the async sources in the order in which they completed
AsyncPartAsCompleted == Concat([k \in 1..Len(finished) |-> returned[finished[k]].list])

\* C13 (accumulation order): while fetch() waits for the futures
\* self._results is the lists of the sync sources, each whole and in its own
\* order, one source after the other; after fetch() has returned it is those
\* lists followed by the lists of the async sources, each whole and in its
\* own order, in the order in which the async sources completed.
C13_AccumulationOrder ==
  /\ fetch_status = "running" => results = SyncPart
  /\ (fetch_status = "ok" /\ gets = 0) => results = SyncPart \o AsyncPartAsCompleted

\* fetch() returned after the sync source gave two items and the async
\* source, once completed, gave two
C13_Witness ==
  /\ fetch_status = "ok"
  /\ gets = 0
  /\ Len(finished) = Len(Fetchers.async)
  /\ \A s \in SourceSet : Len(returned[s].list) = 2
  /\ returned[Fetchers.sync[1]].list[1] # returned[Fetchers.sync[1]].list[2]

\* C14 (fetch waits for the futures): fetch() returns only in a step in
\* which every future of its async sources has returned its list, so it does
\* not return while one of them is pending or running, and never if one stays
\* so; and when the worker is scheduled fairly and every source's fetch comes
\* to an end, a fetch() that waits comes to an end too: it returns, or it
\* raises what a source raised.
C14_FetchWaits ==
  /\ [][(fetch_status # "ok" /\ fetch_status' = "ok") =>
          /\ \A s \in AsyncSet : tasks[s].state = "done"
          /\ Len(finished) = Len(Fetchers.async)]_vars
  /\ [](fetch_status = "running" => fpc = "await")
  /\ (fetch_status = "running") ~>
       (fetch_status = "ok" \/ (fetch_status = "raised" /\ SomeSourceRaised))

\* fetch() has waited for the async source and returned with its items
C14_Witness ==
  /\ fetch_status = "ok"
  /\ finished = Fetchers.async
  /\ \A s \in AsyncSet : returned[s].list # <<>>

\* the payload elements of a payload that came from source s, in their order
FromSource(payload, s) == SelectSeq(payload, LAMBDA t : t[2] = s)

\* the payload of the entry of path p in a merged list
PayloadFor(list, p) == list[CHOOSE k \in 1..Len(list) : list[k].path = p].payload

\* what get_results() yields when the lists of the async sources are put
\* before those of the sync sources
MergedOtherOrder == get_results(AsyncPartAsCompleted \o SyncPart)

\* C15 (merge commutativity): for the lists the sources returned to a fetch(),
\* what get_results() returned (sync lists first) and what it yields for the
\* same lists in the other order have the same paths and, for every path, the
\* same set of payload elements; in both, the payload elements of one source
\* stand in the order in which that source returned them.
C15_MergeCommutative ==
  (fetch_status = "ok" /\ gets = 1) =>
    /\ PathsIn(merged) = PathsIn(MergedOtherOrder)
    /\ Len(merged) = Len(MergedOtherOrder)
    /\ \A p \in PathsIn(merged) :
         /\ Range(PayloadFor(merged, p)) = Range(PayloadFor(MergedOtherOrder, p))
         /\ Len(PayloadFor(merged, p)) = Len(PayloadFor(MergedOtherOrder, p))
         /\ \A s \in SourceSet :
              /\ FromSource(PayloadFor(merged, p), s) = PayloadsOf(returned[s].list, p)
              /\ FromSource(PayloadFor(MergedOtherOrder, p), s) =
                   PayloadsOf(returned[s].list, p)

\* the sync source returned two items of one path and the async source an
\* item of that path, and get_results() merged the three
C15_Witness ==
  /\ fetch_status = "ok"
  /\ gets = 1
  /\ Len(merged) = 1
  /\ Len(merged[1].payload) = 3
  /\ Len(returned[Fetchers.sync[1]].list) = 2
  /\ Len(returned[Fetchers.async[1]].list) = 1

\* who was asked to persist, in order
Who(log) == [k \in 1..Len(log) |-> log[k].who]

\* the calls of lines 123-126 of a run that returns
PersistOrder == <<"cache">> \o Sources \o <<"return">>

IsPrefix(a, b) == Len(a) <= Len(b) /\ a = SubSeq(b, 1, Len(a))

\* C16 (end-of-analysis ordering): while the chunk loop of a run is under way
\* nothing has been persisted by that run; every persist of a run happens
\* with no chunk of the window left unprocessed; the persists of a run are,
\* in this order and each once, the cache record and then every source in
\* chain order (a run that ends early has made the first of them only); and
\* a run that has returned has made them all.
C16_PersistOrder ==
  /\ pc = "chunks" => persistLog = <<>>
  /\ \A k \in 1..Len(persistLog) : persistLog[k].unprocessed = 0
  /\ IsPrefix(Who(persistLog), PersistOrder)
  /\ pc = "persist_sources" => Who(persistLog) = <<"cache">>

\* a run over a window of at least two chunks, one of them dispatched, has
\* returned after its persists
C16_Witness ==
  /\ pc = "idle"
  /\ Who(persistLog) = PersistOrder
  /\ runDispatched # {}
  /\ Len(ChunksOf(top_files)) >= 2

\* C17 (queries leave the analysis alone): no step of query(), fetch(),
\* fetch_sync() or get_results(), nor of the worker that runs the sources'
\* fetch, changes chunks_already_analyzed in memory or in the cache file, or
\* makes a cache_chunk or a persist call on a source (the sources' indexes,
\* in memory and persisted, and the record of those calls stay as they are).
C17_QueriesLeaveAnalysis ==
  [][NextQuery =>
       UNCHANGED <<analyzed, disk, index, stored, runCalls, runDispatched, okBy,
                   receivedBy, persistLog>>]_vars

\* on a project whose cache file holds chunk ids, a fetch() has returned
\* items and get_results() was called
C17_Witness ==
  /\ disk # {}
  /\ analyzed = disk
  /\ fetch_status = "ok"
  /\ results # <<>>
  /\ gets >= 1
  /\ query_string # ""

\* C18 (crash consistency): whenever no analysis run is under way, after
\* runs that returned, raised or were interrupted and after restarts, every
\* chunk id in the chunks_already_analyzed of the cache file is in the
\* persisted index of every source.
C18_CacheWithinIndexes ==
  pc = "idle" => \A s \in SourceSet : disk \subseteq stored[s]

\* C19 (at-most-once indexing): over all the runs on the repository, those
\* that raised or were interrupted and the restarts between them included,
\* no source's cache_chunk is called a second time with a chunk id it has
\* received.
C19_AtMostOnce == reindexed = {}

\* the payload elements the sources returned to the latest fetch()
ReturnedElements ==
  UNION {Range(AllReturned[k].payload) : k \in 1..Len(AllReturned)}

\* the payload elements of a list of items
ElementsOf(list) == UNION {Range(list[k].payload) : k \in 1..Len(list)}

\* C20 (per-fetch reset): whatever self._results held when a fetch() began,
\* once that fetch() has ended (queries and fetches run one at a time) the
\* list holds only items that the sources returned during it, none more
\* often than it was returned, and all of them when the fetch() returned;
\* every payload element in the list and in what get_results() then returns
\* was returned during that fetch() and carries the query string that was set
\* when it began.
C20_PerFetchReset ==
  /\ (fetch_status \in {"ok", "raised"} /\ gets = 0) =>
       /\ \A k \in 1..Len(results) :
            Occurrences(results, results[k]) <= Occurrences(AllReturned, results[k])
       /\ fetch_status = "ok" => Len(results) = Len(AllReturned)
  /\ fetch_status \in {"ok", "raised"} =>
       /\ ElementsOf(results) \subseteq ReturnedElements
       /\ ElementsOf(merged) \subseteq ReturnedElements
       /\ \A t \in ElementsOf(results) \cup ElementsOf(merged) : t[1] = fetch_query

\* a fetch() for another query began with items of an earlier fetch() in the
\* list, returned, and get_results() was called
C20_Witness ==
  /\ heldBefore
  /\ fetch_status = "ok"
  /\ fetch_query = "bar"
  /\ gets = 1
  /\ Len(merged) = 2
  /\ Len(results) = 2

=============================================================================
